---- MODULE Spec2Model ----
(***************************************************************************)
(* locron: location-aware shim in front of `openclaw cron`.                *)
(*                                                                         *)
(* The model covers the tracking store (locron.json), the runtime store    *)
(* (state.json), the external scheduler as seen through `openclaw cron`,   *)
(* the add commands and the scheduler tick (src/locron.py), the edit tool   *)
(* that starts timezone tracking (src/mcp_server.py) and the location      *)
(* refresh with its provider (src/provider_dawarich.py).                   *)
(*                                                                         *)
(* Coordinates: every sample point lies on the meridian lon = 0 and its    *)
(* latitude is expressed in metres of arc (R * phi).  For two points of    *)
(* one meridian the haversine formula of src/resolver.py reduces to        *)
(* R * |dphi|, i.e. the absolute difference of the two latitudes.          *)
(* The "timestamp" field of a location is read by no code and is left out. *)
(***************************************************************************)
EXTENDS Integers, Sequences, FiniteSets, TLC

\* ------------------------------------------------------------ bounds
MaxTicks == 2   \* scheduler cycles started in one behaviour
MaxAdds  == 2   \* add, edit and remove commands issued in one behaviour
MaxCanary == 2  \* runs of the canary in one behaviour

\* ------------------------------------------------------------ values
Names == {"a", "b"}                       \* job names (--name)
NY == "America/New_York"
LON == "Europe/London"
NoTz == "none"                            \* timezone_at() returned None / key absent
NoLoc == -1                               \* no "_location" key / provider returned None
Raise == -2                               \* the refresh left by an exception
Points == {50, 51, 9000}                  \* latitudes (metres of arc) the provider reports
Exprs == {"30 6 * * *"}                   \* --cron
Ons == {"enter", "exit", "both"}          \* --on
NoEvent == "none"                         \* _eval_geo returned None
DEFAULT_TZ == NY                          \* LOCRON_DEFAULT_TZ of the tick process
DefaultTzs == {NY, LON}                   \* LOCRON_DEFAULT_TZ of a process running add
DefaultRadius == 50                       \* zone.get("radius_m", 50)

\* locations.json: externally authored, read-only.  "home" is well formed,
\* "bad" is a non-empty record without lat/lon; any other name is absent.
Locations ==
    [z \in {"home", "bad"} |->
        IF z = "home" THEN [lat |-> 0, lon |-> 0]
                      ELSE [radius_m |-> 60]]
ZoneNames == {"home", "bad", "nowhere"}   \* --location

\* ------------------------------------------------------------ resolver.py
Abs(x) == IF x < 0 THEN -x ELSE x

timezone_at(lat, lon) ==
    CASE lat = 50        -> NY
      [] lat = 51        -> LON
      [] OTHER           -> NoTz

haversine_m(lat1, lon1, lat2, lon2) == Abs(lat2 - lat1)

ZoneKeyError(zone) == ~ ({"lat", "lon"} \subseteq DOMAIN zone)

ZoneRadius(zone) == IF "radius_m" \in DOMAIN zone THEN zone.radius_m ELSE DefaultRadius

\* Faulty variant: the boundary is open.
in_zone_Open(lat, lon, zone) == haversine_m(lat, lon, zone.lat, zone.lon) < ZoneRadius(zone)

\* in_zone (lines 26-28).
in_zone(lat, lon, zone) == haversine_m(lat, lon, zone.lat, zone.lon) <= ZoneRadius(zone)

\* ------------------------------------------------------------ runtime state
NoRec == [present |-> FALSE, has_in_zone |-> FALSE, in_zone |-> FALSE,
          fire_count |-> 0, last_fired |-> 0]
EmptyRec == [NoRec EXCEPT !.present = TRUE]
EmptyState == [loc |-> NoLoc, tz |-> NoTz, geo |-> [n \in Names |-> NoRec]]

VARIABLES
    locronFile,   \* locron.json: sequence of tracked job records
    stateFile,    \* state.json: _location, _tz, _geo:<name>
    ext,          \* external scheduler: ext[id] = name, tz, expr, alive of job id
    proc,         \* the tick process: "none", "once", "daemon"
    pc,           \* position of the tick process: "idle", "loop"
    memJobs,      \* _tick: locron_jobs
    memState,     \* _tick: state
    idx,          \* _tick: index of the next job of the for loop
    dirty,        \* _tick: dirty
    now,          \* number of cycles started (clock of last_fired)
    adds,         \* number of add commands issued
    calls,        \* scheduler calls issued by the current cycle
    lastStep,     \* the most recent iteration of the for loop of _tick
    lastEnd,      \* how the most recent cycle ended ("running": not yet)
    obs,          \* obs[n]: containment seen by the last evaluation of job n
    cycleFired,   \* one-shot jobs that delivered an event in the current cycle
    firedOnce,    \* firedOnce[n]: an event of the current job n was delivered
    deliveredCnt, \* deliveredCnt[n]: events delivered for the name n so far
    cyc,          \* what the current cycle did so far
    rf,           \* one call of update_location, its inputs and its outcome
    canary,       \* the report of the most recent run of the canary
    sv,           \* one save_json racing with one load_json
    cmd           \* a status or add --tz local command between its load and its save

vars == <<locronFile, stateFile, ext, proc, pc, memJobs, memState, idx, dirty,
          now, adds, calls, lastStep, lastEnd, obs, cycleFired, firedOnce,
          deliveredCnt, cyc, rf, canary, sv, cmd>>

NoStep == [kind |-> "none"]

\* refreshed: update_location was called; fresh: what the provider returned;
\* changed: an iteration changed its job record; acted: an iteration patched
\* a job or delivered an event.
NoCyc == [refreshed |-> FALSE, fresh |-> NoLoc, changed |-> FALSE, acted |-> FALSE]

\* The record of a finished cycle.  patched / rejected: the (id, tz) pairs of
\* its patch calls that ran to completion / that did not end with exit 0.
\* wroteJobs / wroteState: the cycle wrote locron.json / state.json.
CycleEnd(how, patched, rejected, stale, enabled, c, wroteJobs, wroteState) ==
    [how |-> how, patched |-> patched, rejected |-> rejected, stale |-> stale,
     enabled |-> enabled,
     refreshed |-> c.refreshed, changed |-> c.changed, acted |-> c.acted,
     wroteJobs |-> wroteJobs, wroteState |-> wroteState]

NoEnd == CycleEnd("none", {}, {}, {}, {}, NoCyc, FALSE, FALSE)

NoRefresh == [phase |-> "none"]

\* The outcome of one check: res is "ok", "missing", "drift" or "error";
\* name and id are those of the record the check names.
CheckOk == [res |-> "ok", name |-> "", id |-> 0]

\* The check left by an exception (a list that is no JSON, an unreadable
\* tracking store): check() records the exception as a failure.
CheckError == [res |-> "error", name |-> "", id |-> 0]

NoReport == [runs |-> 0, listOk |-> TRUE, storeOk |-> TRUE, check1 |-> CheckOk,
             check2 |-> CheckOk, failed |-> FALSE, alerted |-> FALSE]

\* What a reader finds in a JSON file: its complete text, or a text that
\* write_text has cut to length 0 and not yet written again.
Whole(data) == [whole |-> TRUE, data |-> data]

NoSave == [wpc |-> "none", rpc |-> "none", old |-> <<>>, new |-> <<>>,
           disk |-> Whole(<<>>), seen |-> <<>>]

\* No command is between its load and its save; what: how the last one
\* ended, name: its --name.
Done(what, name) == [pc |-> "none", state |-> EmptyState, what |-> what,
                     name |-> name]

NoCmd == Done("none", "")

Init ==
    /\ locronFile = <<>>
    /\ stateFile = EmptyState
    /\ ext = <<>>
    /\ proc = "none"
    /\ pc = "idle"
    /\ memJobs = <<>>
    /\ memState = EmptyState
    /\ idx = 1
    /\ dirty = FALSE
    /\ now = 0
    /\ adds = 0
    /\ calls = <<>>
    /\ lastStep = NoStep
    /\ lastEnd = NoEnd
    /\ obs = [n \in Names |-> FALSE]
    /\ cycleFired = {}
    /\ firedOnce = [n \in Names |-> FALSE]
    /\ deliveredCnt = [n \in Names |-> 0]
    /\ cyc = NoCyc
    /\ rf = NoRefresh
    /\ canary = NoReport
    /\ sv = NoSave
    /\ cmd = NoCmd

\* ------------------------------------------------------------ provider
\* The environment of the process that refreshes the location:
\*   provider : LOCRON_LOCATION_PROVIDER
\*   api_key  : LOCRON_LOCATION_API_KEY ("" when unset)
\*   secrets  : LOCRON_SECRETS_FILE is "unset", names a "missing" file, names
\*              a "file" holding a key, or names a file of "garbage" (no JSON)
\*   static   : LOCRON_STATIC_LAT / LOCRON_STATIC_LON (NoLoc when unset)
Configs ==
    [provider : {"dawarich", "static", "other"}, api_key : {"", "k"},
     secrets : {"unset", "missing", "file", "garbage"},
     static : Points \cup {NoLoc}]

\* What the Dawarich server does with a request that carries a key.
Answers ==
    [kind : {"point"}, lat : Points]
    \cup [kind : {"unreachable", "malformed", "unauthorized", "empty"}, lat : {NoLoc}]

\* The server rejects a request without a key.
ServerReply(api_key, answer) ==
    IF api_key = "" THEN [kind |-> "unauthorized", lat |-> NoLoc] ELSE answer

\* Faulty variant: a failed fetch is not caught.
get_location_Uncaught(api_key, answer) ==
    LET reply == ServerReply(api_key, answer)
    IN  IF reply.kind = "point" THEN reply.lat ELSE Raise

\* provider_dawarich.get_location: the first point of the reply, None after
\* any exception and for an empty list.
get_location(api_key, answer) ==
    LET reply == ServerReply(api_key, answer)
    IN  IF reply.kind = "point" THEN reply.lat ELSE NoLoc

\* The key read from the secrets file.  An unset LOCRON_SECRETS_FILE gives
\* Path(""), the working directory: it exists, and reading it raises
\* IsADirectoryError, which load_json does not catch.
SecretsKey(secrets) ==
    CASE secrets = "unset"   -> "raise"
      [] secrets = "file"    -> "k"
      [] OTHER               -> ""

\* The key the request carries: LOCRON_LOCATION_API_KEY, else the key of the
\* secrets file.
KeyUsed(cfg) == IF cfg.api_key # "" THEN cfg.api_key ELSE SecretsKey(cfg.secrets)

\* _fetch_from_provider: a point, NoLoc (None), or Raise.
_fetch_from_provider(cfg, answer) ==
    IF cfg.provider = "dawarich"
    THEN IF cfg.api_key = ""
         THEN IF SecretsKey(cfg.secrets) = "raise"
              THEN Raise
              ELSE get_location(KeyUsed(cfg), answer)
         ELSE get_location(KeyUsed(cfg), answer)
    ELSE IF cfg.provider = "static"
    THEN cfg.static
    ELSE NoLoc

\* Every outcome a refresh can meet.
FetchOutcomes == {_fetch_from_provider(c, a) : c \in Configs, a \in Answers}

\* ------------------------------------------------------------ location state
\* update_location after the provider returned fresh: a point of Points, or
\* NoLoc when it returned None.
\* Faulty variant: the fresh point is dropped.
update_location_Stale(state, fresh) == state

\* update_location (lines 82-90).
update_location(state, fresh) ==
    IF fresh # NoLoc
    THEN LET tz == timezone_at(fresh, 0)
         IN  [state EXCEPT !.loc = fresh,
                           !.tz = IF tz # NoTz THEN tz ELSE @]
    ELSE state

has_gps_tz(state) == state.tz # NoTz

\* Faulty variant: the stored timezone is ignored.
get_current_tz_of_Default(state, dflt) == dflt

\* get_current_tz in a process whose LOCRON_DEFAULT_TZ is dflt.
get_current_tz_of(state, dflt) == IF state.tz # NoTz THEN state.tz ELSE dflt

get_current_tz(state) == get_current_tz_of(state, DEFAULT_TZ)

get_current_location(state) == state.loc

\* One call of update_location in the environment cfg: the state after it,
\* the location it returns, and whether an exception left it.
Refresh(state, cfg, answer) ==
    LET fresh == _fetch_from_provider(cfg, answer)
    IN  IF fresh = Raise
        THEN [raised |-> TRUE, state |-> state, ret |-> NoLoc]
        ELSE [raised |-> FALSE, state |-> update_location(state, fresh),
              ret |-> get_current_location(update_location(state, fresh))]

\* [j for j in locron_jobs if j.get("name") != name]
WithoutName(jobs, name) == SelectSeq(jobs, LAMBDA j : j.name # name)

\* ------------------------------------------------------------ add
\* _add_geo: the record built from the flags replaces any record of that name.
GeoJob(name, location, on, recurring, text, spawn) ==
    [name |-> name, kind |-> "geo", enabled |-> TRUE, recurring |-> recurring,
     trigger |-> [location |-> location, on |-> on],
     action |-> [text |-> text, spawn |-> spawn]]

\* The action flags: --system-event <text>, --message <text>, or neither.
ActionInputs == {[text |-> "", spawn |-> FALSE],
                 [text |-> "hello", spawn |-> FALSE],
                 [text |-> "hello", spawn |-> TRUE]}

\* The flag combinations given to add --location: every combination for the
\* well-formed zone, the flag defaults for the other two.
GeoInputs ==
    [location : {"home"}, on : Ons, recurring : BOOLEAN, action : ActionInputs]
    \cup [location : ZoneNames \ {"home"}, on : {"enter"}, recurring : {FALSE},
          action : {[text |-> "hello", spawn |-> FALSE]}]

AddGeo ==
    /\ adds < MaxAdds
    /\ \E name \in Names, f \in GeoInputs :
         locronFile' = Append(WithoutName(locronFile, name),
                              GeoJob(name, f.location, f.on, f.recurring,
                                     f.action.text, f.action.spawn))
         /\ firedOnce' = [firedOnce EXCEPT ![name] = FALSE]
    /\ adds' = adds + 1
    /\ UNCHANGED <<stateFile, ext, proc, pc, memJobs, memState, idx, dirty, now,
                   calls, lastStep, lastEnd, obs, cycleFired, deliveredCnt,
                   cyc, rf,
                   canary, sv, cmd>>

TzJob(name, job_id, expr, resolved_tz) ==
    [name |-> name, kind |-> "local_tz", openclaw_id |-> job_id,
     expr |-> expr, current_tz |-> resolved_tz]

\* A job of the external scheduler.  alive = FALSE: the job was deleted, its
\* id is not reused.
ExtJob(name, tz, expr) == [name |-> name, tz |-> tz, expr |-> expr, alive |-> TRUE]

\* `openclaw cron list`: the ids of the jobs the scheduler carries.
Listed(e) == {i \in DOMAIN e : e[i].alive}

\* _add_local_tz: refresh and save the state, create the job in the scheduler
\* with the resolved timezone, track it only when the scheduler returned an id.
\* created = FALSE: the create call printed no id.  An exception of the
\* refresh ends the command before anything is saved.
AddLocalTz ==
    /\ adds < MaxAdds
    /\ \E name \in Names, expr \in Exprs, fresh \in FetchOutcomes,
          dflt \in DefaultTzs, created \in BOOLEAN :
         IF fresh = Raise
         THEN /\ dflt = DEFAULT_TZ
              /\ ~created
              /\ UNCHANGED <<stateFile, ext, locronFile>>
         ELSE
         LET state == update_location(stateFile, fresh)
             resolved_tz == get_current_tz_of(state, dflt)
             job_id == IF created THEN Len(ext) + 1 ELSE 0
         IN  /\ stateFile' = state
             /\ ext' = IF created
                       THEN Append(ext, ExtJob(name, resolved_tz, expr)) ELSE ext
             /\ locronFile' =
                    IF job_id # 0
                    THEN Append(WithoutName(locronFile, name),
                                TzJob(name, job_id, expr, resolved_tz))
                    ELSE locronFile
    /\ adds' = adds + 1
    /\ UNCHANGED <<proc, pc, memJobs, memState, idx, dirty, now, calls, lastStep,
                   lastEnd, obs, cycleFired, firedOnce, deliveredCnt, cyc, rf,
                   canary, sv, cmd>>

\* ------------------------------------------------------------ edit (mcp_server.py)
\* The first job of `openclaw cron list` that carries the name; 0 when none.
FindByName(e, name) ==
    LET S == {i \in Listed(e) : e[i].name = name}
    IN  IF S = {} THEN 0 ELSE CHOOSE i \in S : \A k \in S : i <= k

\* tool_edit with tz = "local".  job_id = 0: no jobId given; name = "": no
\* name given.  The records of `name` are dropped before the name of a job
\* given by jobId alone is read from the scheduler.  rc: how the edit call
\* ended; its result is not read.  Without a job to track the tool goes on
\* to the regular update, which finds no job and returns an error.
ToolEditLocal ==
    /\ adds < MaxAdds
    /\ \E job_id \in {0} \cup Listed(ext), name \in Names \cup {""},
          fresh \in FetchOutcomes, rc \in {"ok", "fail"} :
         /\ (job_id # 0 \/ name # "")
         /\ IF fresh = Raise
            THEN /\ rc = "ok"
                 /\ UNCHANGED <<stateFile, ext, locronFile>>
            ELSE
            LET state == update_location(stateFile, fresh)
                resolved == get_current_tz(state)
                jid == IF job_id # 0 THEN job_id ELSE FindByName(ext, name)
            IN  /\ stateFile' = state
                /\ IF jid # 0
                   THEN /\ ext' = IF rc = "ok"
                                  THEN [ext EXCEPT ![jid].tz = resolved] ELSE ext
                        /\ locronFile' =
                               Append(WithoutName(locronFile, name),
                                      TzJob(IF name # "" THEN name ELSE ext[jid].name,
                                            jid, ext[jid].expr, resolved))
                   ELSE /\ rc = "ok"
                        /\ UNCHANGED <<ext, locronFile>>
    /\ adds' = adds + 1
    /\ UNCHANGED <<proc, pc, memJobs, memState, idx, dirty, now, calls, lastStep,
                   lastEnd, obs, cycleFired, firedOnce, deliveredCnt, cyc, rf,
                   canary, sv, cmd>>

\* ------------------------------------------------------------ remove
\* The names of the records of a tracking store, and of its geo records.
NamesOf(jobs) == {jobs[k].name : k \in DOMAIN jobs}

GeoNamesOf(jobs) == {jobs[k].name : k \in {m \in DOMAIN jobs : jobs[m].kind = "geo"}}

\* found[0]: the first record of the name; 0 when none.
FirstNamed(jobs, name) ==
    LET S == {k \in DOMAIN jobs : jobs[k].name = name}
    IN  IF S = {} THEN 0 ELSE CHOOSE k \in S : \A m \in S : k <= m

\* `openclaw cron rm` of the job the name stands for, when the scheduler
\* carries one and the call succeeds.
ExtRemove(e, name, rmOk) ==
    LET id == FindByName(e, name)
    IN  IF rmOk /\ id # 0 THEN [e EXCEPT ![id].alive = FALSE] ELSE e

\* _cmd_remove --name: a geo record is dropped from the tracking store and
\* nothing else happens; a local_tz record is dropped and the removal is
\* forwarded to the scheduler; an untracked name is forwarded only.  The
\* runtime store is not touched.  The command is issued for a name that the
\* tracking store or the scheduler knows.
CmdRemove ==
    /\ adds < MaxAdds
    /\ \E name \in Names, rmOk \in BOOLEAN :
         LET k == FirstNamed(locronFile, name)
         IN  /\ (k # 0 \/ FindByName(ext, name) # 0)
             /\ IF k # 0 /\ locronFile[k].kind = "geo"
                THEN /\ rmOk
                     /\ locronFile' = WithoutName(locronFile, name)
                     /\ ext' = ext
                ELSE /\ (FindByName(ext, name) = 0 => rmOk)
                     /\ locronFile' = IF k # 0 THEN WithoutName(locronFile, name)
                                      ELSE locronFile
                     /\ ext' = ExtRemove(ext, name, rmOk)
    /\ adds' = adds + 1
    /\ UNCHANGED <<stateFile, proc, pc, memJobs, memState, idx, dirty, now, calls,
                   lastStep, lastEnd, obs, cycleFired, firedOnce, deliveredCnt,
                   cyc, rf,
                   canary, sv, cmd>>

\* ------------------------------------------------------------ geofence evaluation
\* Zone lookup of _eval_geo: the registry entry of the trigger's location,
\* else inline coordinates of the trigger, else none.
NoZone == [none |-> TRUE]

ResolveZone(trigger, locations) ==
    IF trigger.location # "" /\ trigger.location \in DOMAIN locations
    THEN locations[trigger.location]
    ELSE IF {"lat", "lon"} \subseteq DOMAIN trigger
         THEN [lat |-> trigger.lat, lon |-> trigger.lon,
               radius_m |-> IF "radius_m" \in DOMAIN trigger
                            THEN trigger.radius_m ELSE DefaultRadius]
         ELSE NoZone

\* job_state.get("in_zone", False)
WasInside(job_state) == IF job_state.has_in_zone THEN job_state.in_zone ELSE FALSE

\* Faulty variant: level-triggered, fires on containment instead of on the crossing.
TransitionEvent_Level(currently_inside, was_inside) ==
    IF currently_inside THEN "enter"
    ELSE IF was_inside THEN "exit"
    ELSE NoEvent

\* The transition of _eval_geo (lines 462-466).
TransitionEvent(currently_inside, was_inside) ==
    IF currently_inside /\ ~was_inside THEN "enter"
    ELSE IF ~currently_inside /\ was_inside THEN "exit"
    ELSE NoEvent

\* Faulty variant: the filter is ignored.
Filtered_Unfiltered(event, on) == event

\* The filter of _eval_geo (lines 468-470).
Filtered(event, on) ==
    IF event # NoEvent /\ (on = "both" \/ on = event) THEN event ELSE NoEvent

\* _eval_geo: resolved (a zone was found), raised (in_zone raised KeyError),
\* inside (currently_inside), event (the transition), ret (the value returned),
\* job_state (the runtime record after the call).
_eval_geo(job, job_state, loc, locations) ==
    LET zone == ResolveZone(job.trigger, locations)
    IN  IF "none" \in DOMAIN zone
        THEN [resolved |-> FALSE, raised |-> FALSE, inside |-> FALSE,
              event |-> NoEvent, ret |-> NoEvent, job_state |-> job_state]
        ELSE IF ZoneKeyError(zone)
        THEN [resolved |-> TRUE, raised |-> TRUE, inside |-> FALSE,
              event |-> NoEvent, ret |-> NoEvent, job_state |-> job_state]
        ELSE LET currently_inside == in_zone(loc, 0, zone)
                 was_inside == WasInside(job_state)
                 event == TransitionEvent(currently_inside, was_inside)
             IN  [resolved |-> TRUE, raised |-> FALSE, inside |-> currently_inside,
                  event |-> event, ret |-> Filtered(event, job.trigger.on),
                  job_state |-> [job_state EXCEPT !.has_in_zone = TRUE,
                                                  !.in_zone = currently_inside]]

\* _fire_geo: the scheduler calls it issues; rc is how subprocess.run ended:
\* "ok" (exit 0), "fail" (non-zero exit), "raise" (the command did not launch).
_fire_geo(job, event, name, rc) ==
    IF job.action.text = ""
    THEN <<>>
    ELSE <<[op |-> "add", id |-> 0, name |-> name, tz |-> NoTz, rc |-> rc,
            fallback |-> FALSE, spawn |-> job.action.spawn]>>

\* ------------------------------------------------------------ tick
RCs == {"ok", "fail", "raise"}

NoEval == [resolved |-> FALSE, raised |-> FALSE, inside |-> FALSE,
           event |-> NoEvent, ret |-> NoEvent, job_state |-> NoRec]

Completed(call) == call.rc # "raise"

\* Faulty variant: the recorded timezone is not compared with the current one.
PatchNeeded_Always(job, state) ==
    /\ has_gps_tz(state)
    /\ job.openclaw_id # 0

\* Faulty variant: the has_gps_tz test is dropped.
PatchNeeded_NoGpsCheck(job, state) ==
    /\ job.current_tz # get_current_tz(state)
    /\ job.openclaw_id # 0

\* The guard of the drift patch (lines 410-413).
PatchNeeded(job, state) ==
    /\ has_gps_tz(state)
    /\ job.current_tz # get_current_tz(state)
    /\ job.openclaw_id # 0

\* What the tick writes to the record after the patch call returned with rc
\* (line 417).
AppliedTz(job, current_tz, rc) == current_tz

\* One iteration of the for loop on a local_tz record (lines 407-418).
TzIter(job, state, rc) ==
    LET current_tz == get_current_tz(state)
        call == [op |-> "edit", id |-> job.openclaw_id, name |-> job.name,
                 tz |-> current_tz, rc |-> rc, fallback |-> ~has_gps_tz(state),
                 spawn |-> FALSE]
    IN  IF PatchNeeded(job, state)
        THEN IF rc = "raise"
             THEN [raised |-> TRUE, exc |-> "OSError", job |-> job, state |-> state,
                   dirty |-> FALSE, calls |-> <<call>>, evaluated |-> FALSE,
                   delivered |-> FALSE, eval |-> NoEval]
             ELSE [raised |-> FALSE, exc |-> "", state |-> state,
                   job |-> [job EXCEPT !.current_tz = AppliedTz(job, current_tz, rc)],
                   dirty |-> TRUE, calls |-> <<call>>, evaluated |-> FALSE,
                   delivered |-> FALSE, eval |-> NoEval]
        ELSE [raised |-> FALSE, exc |-> "", job |-> job, state |-> state,
              dirty |-> FALSE, calls |-> <<>>, evaluated |-> FALSE,
              delivered |-> FALSE, eval |-> NoEval]

\* Faulty variant: a disabled job is evaluated like an enabled one.
GeoSkipped_IgnoreEnabled(job, loc) == loc = NoLoc

\* The skip test of a geo record (line 421).
GeoSkipped(job, loc) == ~job.enabled \/ loc = NoLoc

\* One iteration of the for loop on a geo record (lines 420-437).
GeoIter(job, state, rc, clock) ==
    LET name == job.name
        loc == get_current_location(state)
        skip == [raised |-> FALSE, exc |-> "", job |-> job, state |-> state,
                 dirty |-> FALSE, calls |-> <<>>, evaluated |-> FALSE,
                 delivered |-> FALSE, eval |-> NoEval]
    IN  IF GeoSkipped(job, loc) THEN skip
        ELSE
        LET job_state == IF state.geo[name].present THEN state.geo[name] ELSE EmptyRec
            ev == _eval_geo(job, job_state, loc, Locations)
            state1 == [state EXCEPT !.geo[name] = ev.job_state]
            fire == _fire_geo(job, ev.ret, name, rc)
            fired_state == [ev.job_state EXCEPT !.last_fired = clock,
                                                !.fire_count = @ + 1]
        IN  IF ev.raised
            THEN [skip EXCEPT !.raised = TRUE, !.exc = "KeyError", !.eval = ev]
            ELSE IF ev.ret = NoEvent
            THEN [skip EXCEPT !.state = state1, !.evaluated = ev.resolved, !.eval = ev]
            ELSE IF fire # <<>> /\ rc = "raise"
            THEN [skip EXCEPT !.raised = TRUE, !.exc = "OSError", !.calls = fire,
                              !.eval = ev]
            ELSE [raised |-> FALSE, exc |-> "",
                  job |-> IF ~job.recurring THEN [job EXCEPT !.enabled = FALSE] ELSE job,
                  state |-> [state EXCEPT !.geo[name] = fired_state],
                  dirty |-> TRUE, calls |-> fire, evaluated |-> TRUE,
                  delivered |-> TRUE, eval |-> ev]

Iter(job, state, rc, clock) ==
    IF job.kind = "local_tz" THEN TzIter(job, state, rc)
    ELSE IF job.kind = "geo" THEN GeoIter(job, state, rc, clock)
    ELSE [raised |-> FALSE, exc |-> "", job |-> job, state |-> state,
          dirty |-> FALSE, calls |-> <<>>, evaluated |-> FALSE, delivered |-> FALSE,
          eval |-> NoEval]

\* The scheduler rejects the edit of a job it does not carry: such a call
\* does not end with exit 0.
Rejected(e, cs) ==
    cs # <<>> /\ cs[1].op = "edit" /\ cs[1].id \notin Listed(e)

\* The scheduler applies an edit that ended with exit 0.
ApplyCalls(e, cs) ==
    IF cs # <<>> /\ cs[1].op = "edit" /\ cs[1].rc = "ok" /\ cs[1].id \in Listed(e)
    THEN [e EXCEPT ![cs[1].id].tz = cs[1].tz]
    ELSE e

\* The (id, tz) pairs of the edit calls that ran to completion.
Patched(cs) ==
    {<<cs[k].id, cs[k].tz>> : k \in {m \in DOMAIN cs : cs[m].op = "edit" /\ Completed(cs[m])}}

\* The (id, tz) pairs of the edit calls that did not end with exit 0.
NotAccepted(cs) ==
    {<<cs[k].id, cs[k].tz>> : k \in {m \in DOMAIN cs : cs[m].op = "edit" /\ cs[m].rc # "ok"}}

\* The patched (id, tz) pairs that the tracking store does not carry.
NotPersisted(cs, jobs) ==
    {p \in Patched(cs) :
        \E k \in DOMAIN jobs : /\ jobs[k].kind = "local_tz"
                               /\ jobs[k].openclaw_id = p[1]
                               /\ jobs[k].current_tz # p[2]}

\* The one-shot geo records of the cycle that delivered an event and are
\* still enabled in the tracking store.
StillEnabled(fired, jobs) ==
    {n \in fired : \E k \in DOMAIN jobs : /\ jobs[k].name = n
                                          /\ jobs[k].kind = "geo"
                                          /\ ~jobs[k].recurring
                                          /\ jobs[k].enabled}

\* Faulty variant: the loop of the daemon does not catch the exception.
AfterCycle_Uncaught(mode, raised) ==
    IF mode = "daemon" /\ ~raised THEN "daemon" ELSE "none"

\* _cmd_tick: the process after a cycle ended.  The daemon catches the
\* exception of a cycle, sleeps and loops; a single tick ends either way.
AfterCycle(mode, raised) ==
    IF mode = "daemon" THEN "daemon" ELSE "none"

\* Faulty variant: the tracking store is saved by every cycle.
SaveJobs_Always(d) == TRUE

\* line 439: the tracking store is saved when the cycle is dirty.
SaveJobs(d) == d

\* _tick, lines 390-401, in a process of mode m: load both stores, return
\* when nothing is tracked, else refresh the location.  An exception of the
\* refresh leaves _tick.
TickStart(m) ==
    /\ pc = "idle"
    /\ now < MaxTicks
    /\ now' = now + 1
    /\ calls' = <<>>
    /\ cycleFired' = {}
    /\ lastStep' = NoStep
    /\ IF locronFile = <<>>
       THEN /\ lastEnd' = CycleEnd("empty", {}, {}, {}, {}, NoCyc, FALSE, FALSE)
            /\ proc' = AfterCycle(m, FALSE)
            /\ UNCHANGED <<pc, memJobs, memState, idx, dirty, cyc>>
       ELSE \E fresh \in FetchOutcomes :
              IF fresh = Raise
              THEN /\ lastEnd' = CycleEnd("aborted", {}, {}, {}, {},
                                          [NoCyc EXCEPT !.refreshed = TRUE],
                                          FALSE, FALSE)
                   /\ proc' = AfterCycle(m, TRUE)
                   /\ UNCHANGED <<pc, memJobs, memState, idx, dirty, cyc>>
              ELSE /\ pc' = "loop"
                   /\ proc' = m
                   /\ memJobs' = locronFile
                   /\ memState' = update_location(stateFile, fresh)
                   /\ idx' = 1
                   /\ dirty' = FALSE
                   /\ cyc' = [NoCyc EXCEPT !.refreshed = TRUE, !.fresh = fresh]
                   /\ lastEnd' = [lastEnd EXCEPT !.how = "running"]
    /\ UNCHANGED <<locronFile, stateFile, ext, adds, obs, firedOnce,
                   deliveredCnt, rf,
                   canary, sv, cmd>>

\* _cmd_tick, line 385: `locron tick` runs one cycle.
CmdTickOnce ==
    /\ proc = "none"
    /\ TickStart("once")

\* _cmd_tick, lines 376-379: `locron tick --daemon` is started and runs its
\* first cycle.
CmdTickDaemon ==
    /\ proc = "none"
    /\ TickStart("daemon")

\* _cmd_tick, lines 378-383: the daemon wakes from its sleep and runs the
\* next cycle.
DaemonWake ==
    /\ proc = "daemon"
    /\ TickStart("daemon")

\* _tick, lines 403-437: one iteration of the for loop.  An exception leaves
\* _tick at once: nothing of the cycle is saved.
TickJob ==
    /\ pc = "loop"
    /\ idx <= Len(memJobs)
    /\ \E rc \in RCs :
         LET job == memJobs[idx]
             r == Iter(job, memState, rc, now)
             n == job.name
         IN  /\ (r.calls = <<>> => rc = "ok")
             /\ (Rejected(ext, r.calls) => rc # "ok")
             /\ lastStep' = [kind |-> job.kind, name |-> n, job |-> job,
                             jobAfter |-> r.job, tz |-> get_current_tz(memState),
                             gps |-> has_gps_tz(memState),
                             loc |-> get_current_location(memState),
                             prior |-> memState.geo[n], post |-> r.state.geo[n],
                             calls |-> r.calls,
                             raised |-> r.raised, exc |-> r.exc,
                             evaluated |-> r.evaluated,
                             delivered |-> r.delivered, eval |-> r.eval,
                             prevObs |-> obs[n], firedBefore |-> firedOnce[n]]
             /\ IF r.raised
                THEN /\ pc' = "idle"
                     /\ proc' = AfterCycle(proc, TRUE)
                     /\ calls' = <<>>
                     /\ lastEnd' = CycleEnd("aborted", Patched(calls),
                                            NotAccepted(calls \o r.calls),
                                            NotPersisted(calls, locronFile),
                                            StillEnabled(cycleFired, locronFile),
                                            cyc, FALSE, FALSE)
                     /\ memJobs' = <<>>
                     /\ memState' = EmptyState
                     /\ idx' = 1
                     /\ dirty' = FALSE
                     /\ cycleFired' = {}
                     /\ cyc' = NoCyc
                     /\ UNCHANGED <<ext, obs, firedOnce, deliveredCnt>>
                ELSE /\ memJobs' = [memJobs EXCEPT ![idx] = r.job]
                     /\ memState' = r.state
                     /\ dirty' = (dirty \/ r.dirty)
                     /\ idx' = idx + 1
                     /\ calls' = calls \o r.calls
                     /\ ext' = ApplyCalls(ext, r.calls)
                     /\ obs' = IF r.evaluated
                               THEN [obs EXCEPT ![n] = r.eval.inside] ELSE obs
                     /\ cycleFired' = IF r.delivered /\ ~job.recurring
                                      THEN cycleFired \cup {n} ELSE cycleFired
                     /\ firedOnce' = IF r.delivered /\ ~job.recurring
                                     THEN [firedOnce EXCEPT ![n] = TRUE]
                                     ELSE firedOnce
                     /\ deliveredCnt' = IF r.delivered
                                        THEN [deliveredCnt EXCEPT ![n] = @ + 1]
                                        ELSE deliveredCnt
                     /\ cyc' = [cyc EXCEPT
                                  !.changed = @ \/ (r.job # job),
                                  !.acted = @ \/ r.delivered \/ Patched(r.calls) # {}]
                     /\ UNCHANGED <<proc, pc, lastEnd>>
    /\ UNCHANGED <<locronFile, stateFile, now, adds, rf,
                   canary, sv, cmd>>

\* _tick, lines 439-441: save the tracking store when dirty, save the state.
\* The locals of _tick end with the call.
TickPersist ==
    /\ pc = "loop"
    /\ idx > Len(memJobs)
    /\ pc' = "idle"
    /\ proc' = AfterCycle(proc, FALSE)
    /\ locronFile' = IF SaveJobs(dirty) THEN memJobs ELSE locronFile
    /\ stateFile' = memState
    /\ calls' = <<>>
    /\ lastEnd' = CycleEnd("completed", Patched(calls),
                           NotAccepted(calls),
                           NotPersisted(calls, locronFile'),
                           StillEnabled(cycleFired, locronFile'),
                           cyc, SaveJobs(dirty), TRUE)
    /\ memJobs' = <<>>
    /\ memState' = EmptyState
    /\ idx' = 1
    /\ dirty' = FALSE
    /\ cycleFired' = {}
    /\ cyc' = NoCyc
    /\ lastStep' = NoStep
    /\ UNCHANGED <<ext, now, adds, obs, firedOnce, deliveredCnt, rf,
                   canary, sv, cmd>>

\* ------------------------------------------------------------ one refresh
\* The states a refresh can start from: a timezone is stored only together
\* with a location, and a location that resolves is stored with its timezone.
RefreshStates ==
    {[EmptyState EXCEPT !.loc = l, !.tz = t] :
        <<l, t>> \in {x \in (Points \cup {NoLoc}) \X {NY, LON, NoTz} :
                        /\ x[1] = NoLoc => x[2] = NoTz
                        /\ (x[1] # NoLoc /\ timezone_at(x[1], 0) # NoTz)
                               => x[2] = timezone_at(x[1], 0)}}

InitRefresh ==
    /\ locronFile = <<>>
    /\ stateFile = EmptyState
    /\ ext = <<>>
    /\ proc = "none"
    /\ pc = "idle"
    /\ memJobs = <<>>
    /\ memState = EmptyState
    /\ idx = 1
    /\ dirty = FALSE
    /\ now = 0
    /\ adds = 0
    /\ calls = <<>>
    /\ lastStep = NoStep
    /\ lastEnd = NoEnd
    /\ obs = [n \in Names |-> FALSE]
    /\ cycleFired = {}
    /\ firedOnce = [n \in Names |-> FALSE]
    /\ deliveredCnt = [n \in Names |-> 0]
    /\ cyc = NoCyc
    /\ rf \in [phase : {"call"}, cfg : Configs, answer : Answers,
               state : RefreshStates]
    /\ canary = NoReport
    /\ sv = NoSave
    /\ cmd = NoCmd

\* update_location is called in the environment rf.cfg, get_current_tz after it.
DoRefresh ==
    /\ rf.phase = "call"
    /\ rf' = [phase |-> "done", cfg |-> rf.cfg, answer |-> rf.answer,
              state |-> rf.state,
              result |-> Refresh(rf.state, rf.cfg, rf.answer),
              tz |-> get_current_tz(Refresh(rf.state, rf.cfg, rf.answer).state)]
    /\ UNCHANGED <<locronFile, stateFile, ext, proc, pc, memJobs, memState, idx,
                   dirty, now, adds, calls, lastStep, lastEnd, obs, cycleFired,
                   firedOnce, deliveredCnt, cyc, canary, sv, cmd>>

NextRefresh == DoRefresh

SpecRefresh == InitRefresh /\ [][NextRefresh]_vars

\* ------------------------------------------------------------ specification
\* The commands of the CLI and of the MCP server, with single ticks as a
\* system timer starts them.
Next ==
    \/ AddGeo
    \/ AddLocalTz
    \/ ToolEditLocal
    \/ CmdRemove
    \/ CmdTickOnce
    \/ TickJob
    \/ TickPersist

Spec == Init /\ [][Next]_vars

\* ------------------------------------------------------------ daemon
\* The daemon over a tracking store that stays as it is.  The store holds up
\* to two of: a timezone follower of scheduler job 1, a recurring geofence
\* job of the zone "home", a geofence job of the zone "bad" (its evaluation
\* raises KeyError).
DaemonJobs ==
    {TzJob("a", 1, "30 6 * * *", NY),
     GeoJob("b", "home", "both", TRUE, "hello", FALSE),
     GeoJob("b", "bad", "enter", FALSE, "hello", FALSE)}

DaemonStores ==
    {<<>>}
    \cup {<<j>> : j \in DaemonJobs}
    \cup {<<j[1], j[2]>> : j \in {x \in DaemonJobs \X DaemonJobs :
                                     x[1].name # x[2].name}}

InitDaemon ==
    /\ locronFile \in DaemonStores
    /\ stateFile = EmptyState
    /\ ext = <<ExtJob("a", NY, "30 6 * * *")>>
    /\ proc = "none"
    /\ pc = "idle"
    /\ memJobs = <<>>
    /\ memState = EmptyState
    /\ idx = 1
    /\ dirty = FALSE
    /\ now = 0
    /\ adds = 0
    /\ calls = <<>>
    /\ lastStep = NoStep
    /\ lastEnd = NoEnd
    /\ obs = [n \in Names |-> FALSE]
    /\ cycleFired = {}
    /\ firedOnce = [n \in Names |-> FALSE]
    /\ deliveredCnt = [n \in Names |-> 0]
    /\ cyc = NoCyc
    /\ rf = NoRefresh
    /\ canary = NoReport
    /\ sv = NoSave
    /\ cmd = NoCmd

NextDaemon ==
    \/ CmdTickDaemon
    \/ DaemonWake
    \/ TickJob
    \/ TickPersist

\* The daemon's loop is sequential code and its sleep returns: once started,
\* each of its steps is taken when it stays possible.  Starting the process
\* is left to the user.
DaemonSpec ==
    /\ InitDaemon
    /\ [][NextDaemon]_vars
    /\ WF_vars(DaemonWake)
    /\ WF_vars(TickJob)
    /\ WF_vars(TickPersist)

\* ------------------------------------------------------------ canary (canary.py)
\* lj.get("openclaw_id"): None, here 0, for a record without the key.
OcId(lj) == IF "openclaw_id" \in DOMAIN lj THEN lj.openclaw_id ELSE 0

MinOf(S) == CHOOSE k \in S : \A m \in S : k <= m

\* Faulty variant: the kind of the record is not looked at.
test_openclaw_cron_AllKinds(jobs, e, listOk, storeOk) ==
    IF ~listOk \/ ~storeOk THEN CheckError
    ELSE LET S == {k \in DOMAIN jobs : OcId(jobs[k]) \notin Listed(e)}
         IN  IF S = {} THEN CheckOk
             ELSE [res |-> "missing", name |-> jobs[MinOf(S)].name,
                   id |-> OcId(jobs[MinOf(S)])]

\* test_openclaw_cron: the first local_tz record whose openclaw_id is not in
\* the list of the scheduler.
test_openclaw_cron(jobs, e, listOk, storeOk) ==
    IF ~listOk \/ ~storeOk THEN CheckError
    ELSE LET S == {k \in DOMAIN jobs : /\ jobs[k].kind = "local_tz"
                                       /\ OcId(jobs[k]) \notin Listed(e)}
         IN  IF S = {} THEN CheckOk
             ELSE [res |-> "missing", name |-> jobs[MinOf(S)].name,
                   id |-> OcId(jobs[MinOf(S)])]

\* Faulty variant: the loop ends at the first record the scheduler lacks.
test_tz_consistency_StopAtMissing(jobs, e, listOk, storeOk) ==
    IF ~listOk \/ ~storeOk THEN CheckError
    ELSE LET Gone(k) == jobs[k].kind = "local_tz" /\ OcId(jobs[k]) \notin Listed(e)
             S == {k \in DOMAIN jobs : /\ jobs[k].kind = "local_tz"
                                       /\ OcId(jobs[k]) \in Listed(e)
                                       /\ e[OcId(jobs[k])].tz # jobs[k].current_tz
                                       /\ \A m \in 1..(k - 1) : ~Gone(m)}
         IN  IF S = {} THEN CheckOk
             ELSE [res |-> "drift", name |-> jobs[MinOf(S)].name,
                   id |-> OcId(jobs[MinOf(S)])]

\* test_tz_consistency: the first local_tz record whose job is in the list
\* of the scheduler with a timezone other than the record's current_tz.
test_tz_consistency(jobs, e, listOk, storeOk) ==
    IF ~listOk \/ ~storeOk THEN CheckError
    ELSE LET S == {k \in DOMAIN jobs : /\ jobs[k].kind = "local_tz"
                                       /\ OcId(jobs[k]) \in Listed(e)
                                       /\ e[OcId(jobs[k])].tz # jobs[k].current_tz}
         IN  IF S = {} THEN CheckOk
             ELSE [res |-> "drift", name |-> jobs[MinOf(S)].name,
                   id |-> OcId(jobs[MinOf(S)])]

AlertJob == ExtJob("locron-canary-alert", NoTz, "+0s")

\* Faulty variant: the jobs the scheduler lost are created again.
Alerted_Heal(e, failed, alertOk) ==
    IF failed /\ alertOk
    THEN Append([i \in DOMAIN e |-> [e[i] EXCEPT !.alive = TRUE]], AlertJob)
    ELSE e

\* main, lines 125-136: with a failure the alert job is added to the
\* scheduler, when the scheduler can be reached.
Alerted(e, failed, alertOk) ==
    IF failed /\ alertOk THEN Append(e, AlertJob) ELSE e

\* main: one run of the canary.  listOk: `openclaw cron list --json` printed
\* a JSON document; storeOk: locron.json could be read; otherFail: one of
\* the four remaining checks failed.
Canary ==
    /\ canary.runs < MaxCanary
    /\ \E listOk \in BOOLEAN, storeOk \in BOOLEAN, otherFail \in BOOLEAN,
          alertOk \in BOOLEAN :
         LET c1 == test_openclaw_cron(locronFile, ext, listOk, storeOk)
             c2 == test_tz_consistency(locronFile, ext, listOk, storeOk)
             failed == c1 # CheckOk \/ c2 # CheckOk \/ otherFail
         IN  /\ (~storeOk => locronFile = <<>>)
             /\ (~storeOk => otherFail)
             /\ canary' = [runs |-> canary.runs + 1, listOk |-> listOk,
                           storeOk |-> storeOk, check1 |-> c1, check2 |-> c2,
                           failed |-> failed, alerted |-> failed /\ alertOk]
             /\ ext' = Alerted(ext, failed, alertOk)
    /\ UNCHANGED <<locronFile, stateFile, proc, pc, memJobs, memState, idx,
                   dirty, now, adds, calls, lastStep, lastEnd, obs, cycleFired,
                   firedOnce, deliveredCnt, cyc, rf, sv, cmd>>

\* The jobs of the scheduler that a user can change behind locron's back.
UserJobs(e) == {i \in Listed(e) : e[i].name \in Names}

\* `openclaw cron rm <id>` issued by the user, not through locron.
ExtDelete ==
    /\ adds < MaxAdds
    /\ \E id \in UserJobs(ext) : ext' = [ext EXCEPT ![id].alive = FALSE]
    /\ adds' = adds + 1
    /\ UNCHANGED <<locronFile, stateFile, proc, pc, memJobs, memState, idx,
                   dirty, now, calls, lastStep, lastEnd, obs, cycleFired,
                   firedOnce, deliveredCnt, cyc, rf, canary, sv, cmd>>

\* `openclaw cron edit <id> --tz <tz>` issued by the user, not through locron.
ExtSetTz ==
    /\ adds < MaxAdds
    /\ \E id \in UserJobs(ext), tz \in {NY, LON} :
         /\ tz # ext[id].tz
         /\ ext' = [ext EXCEPT ![id].tz = tz]
    /\ adds' = adds + 1
    /\ UNCHANGED <<locronFile, stateFile, proc, pc, memJobs, memState, idx,
                   dirty, now, calls, lastStep, lastEnd, obs, cycleFired,
                   firedOnce, deliveredCnt, cyc, rf, canary, sv, cmd>>

CanaryJobs ==
    {TzJob("a", 1, "30 6 * * *", NY),
     TzJob("b", 2, "0 9 * * *", NY),
     GeoJob("b", "home", "both", TRUE, "hello", FALSE)}

CanaryStores ==
    {<<>>}
    \cup {<<j>> : j \in CanaryJobs}
    \cup {<<j[1], j[2]>> : j \in {x \in CanaryJobs \X CanaryJobs :
                                     x[1].name # x[2].name}}

\* The scheduler carries the two jobs the followers were added with.
InitCanary ==
    /\ locronFile \in CanaryStores
    /\ stateFile = EmptyState
    /\ ext = <<ExtJob("a", NY, "30 6 * * *"), ExtJob("b", NY, "0 9 * * *")>>
    /\ proc = "none"
    /\ pc = "idle"
    /\ memJobs = <<>>
    /\ memState = EmptyState
    /\ idx = 1
    /\ dirty = FALSE
    /\ now = 0
    /\ adds = 0
    /\ calls = <<>>
    /\ lastStep = NoStep
    /\ lastEnd = NoEnd
    /\ obs = [n \in Names |-> FALSE]
    /\ cycleFired = {}
    /\ firedOnce = [n \in Names |-> FALSE]
    /\ deliveredCnt = [n \in Names |-> 0]
    /\ cyc = NoCyc
    /\ rf = NoRefresh
    /\ canary = NoReport
    /\ sv = NoSave
    /\ cmd = NoCmd

NextCanary ==
    \/ ExtDelete
    \/ ExtSetTz
    \/ CmdTickOnce
    \/ TickJob
    \/ TickPersist
    \/ Canary

CanarySpec == InitCanary /\ [][NextCanary]_vars

\* ------------------------------------------------------------ save and load
\* A file that write_text has cut to length 0 and not yet written again.
Cut == [whole |-> FALSE, data |-> <<>>]

\* Path.write_text, first half: open(path, "w") cuts the file to length 0.
write_text_open(disk) == Cut

\* load_json: the parsed text; the default for a text that is no JSON.
load_json(disk, default) == IF disk.whole THEN disk.data ELSE default

\* One process is about to save `new` over `old`, another is about to load.
InitSave ==
    /\ locronFile = <<>>
    /\ stateFile = EmptyState
    /\ ext = <<>>
    /\ proc = "none"
    /\ pc = "idle"
    /\ memJobs = <<>>
    /\ memState = EmptyState
    /\ idx = 1
    /\ dirty = FALSE
    /\ now = 0
    /\ adds = 0
    /\ calls = <<>>
    /\ lastStep = NoStep
    /\ lastEnd = NoEnd
    /\ obs = [n \in Names |-> FALSE]
    /\ cycleFired = {}
    /\ firedOnce = [n \in Names |-> FALSE]
    /\ deliveredCnt = [n \in Names |-> 0]
    /\ cyc = NoCyc
    /\ rf = NoRefresh
    /\ canary = NoReport
    /\ cmd = NoCmd
    /\ \E old \in DaemonStores, new \in DaemonStores :
         /\ old # new
         /\ sv = [wpc |-> "save", rpc |-> "load", old |-> old, new |-> new,
                  disk |-> Whole(old), seen |-> <<>>]

\* save_json, line 64, first half: the file is opened for writing.
SaveOpen ==
    /\ sv.wpc = "save"
    /\ sv' = [sv EXCEPT !.wpc = "write", !.disk = write_text_open(sv.disk)]
    /\ UNCHANGED <<locronFile, stateFile, ext, proc, pc, memJobs, memState, idx,
                   dirty, now, adds, calls, lastStep, lastEnd, obs, cycleFired,
                   firedOnce, deliveredCnt, cyc, rf, canary, cmd>>

\* save_json, line 64, second half: the text is written and the file closed.
SaveWrite ==
    /\ sv.wpc = "write"
    /\ sv' = [sv EXCEPT !.wpc = "done", !.disk = Whole(sv.new)]
    /\ UNCHANGED <<locronFile, stateFile, ext, proc, pc, memJobs, memState, idx,
                   dirty, now, adds, calls, lastStep, lastEnd, obs, cycleFired,
                   firedOnce, deliveredCnt, cyc, rf, canary, cmd>>

\* load_json of the other process, with the default [] of the tracking store.
Load ==
    /\ sv.rpc = "load"
    /\ sv' = [sv EXCEPT !.rpc = "done", !.seen = load_json(sv.disk, <<>>)]
    /\ UNCHANGED <<locronFile, stateFile, ext, proc, pc, memJobs, memState, idx,
                   dirty, now, adds, calls, lastStep, lastEnd, obs, cycleFired,
                   firedOnce, deliveredCnt, cyc, rf, canary, cmd>>

NextSave == SaveOpen \/ SaveWrite \/ Load

SaveSpec == InitSave /\ [][NextSave]_vars

\* ------------------------------------------------------------ a command racing with a tick
\* _cmd_status, line 507, and _add_local_tz, line 255: the command loads
\* state.json.  The refresh that follows asks the provider over the network;
\* until the answer is in, the command holds the state it loaded.
CmdLoad ==
    /\ cmd.pc = "none"
    /\ adds < MaxAdds
    /\ \E c \in {"status", "add"} :
         cmd' = [pc |-> c, state |-> stateFile, what |-> "none", name |-> ""]
    /\ adds' = adds + 1
    /\ UNCHANGED <<locronFile, stateFile, ext, proc, pc, memJobs, memState, idx,
                   dirty, now, calls, lastStep, lastEnd, obs, cycleFired,
                   firedOnce, deliveredCnt, cyc, rf, canary, sv>>

\* _cmd_status, lines 508-524: refresh the loaded state, save it, print.  An
\* exception of the refresh ends the command before the save.
StatusSave ==
    /\ cmd.pc = "status"
    /\ \E fresh \in FetchOutcomes :
         /\ stateFile' = IF fresh = Raise THEN stateFile
                         ELSE update_location(cmd.state, fresh)
         /\ cmd' = Done(IF fresh = Raise THEN "raised" ELSE "status", "")
    /\ UNCHANGED <<locronFile, ext, proc, pc, memJobs, memState, idx, dirty, now,
                   adds, calls, lastStep, lastEnd, obs, cycleFired, firedOnce,
                   deliveredCnt, cyc, rf, canary, sv>>

\* Faulty variant: the record is written whatever the create call returned.
Tracked_Always(job_id) == TRUE

\* _add_local_tz, line 279: `if job_id:`.
Tracked(job_id) == job_id # 0

\* _add_local_tz, lines 256-291: refresh the loaded state, save it, create
\* the job in the scheduler, track it when the scheduler returned an id.
AddSaveTrack ==
    /\ cmd.pc = "add"
    /\ \E name \in Names, expr \in Exprs, fresh \in FetchOutcomes,
          created \in BOOLEAN :
         IF fresh = Raise
         THEN /\ ~created
              /\ cmd' = Done("raised", name)
              /\ UNCHANGED <<stateFile, ext, locronFile>>
         ELSE
         LET state == update_location(cmd.state, fresh)
             resolved_tz == get_current_tz(state)
             job_id == IF created THEN Len(ext) + 1 ELSE 0
         IN  /\ stateFile' = state
             /\ ext' = IF created
                       THEN Append(ext, ExtJob(name, resolved_tz, expr)) ELSE ext
             /\ locronFile' =
                    IF Tracked(job_id)
                    THEN Append(WithoutName(locronFile, name),
                                TzJob(name, job_id, expr, resolved_tz))
                    ELSE locronFile
             /\ cmd' = Done(IF created THEN "created" ELSE "no id", name)
    /\ UNCHANGED <<proc, pc, memJobs, memState, idx, dirty, now, adds, calls,
                   lastStep, lastEnd, obs, cycleFired, firedOnce, deliveredCnt,
                   cyc, rf, canary, sv>>

NextRace ==
    \/ CmdLoad
    \/ StatusSave
    \/ AddSaveTrack
    \/ CmdTickOnce
    \/ TickJob
    \/ TickPersist

\* Commands and single ticks as separate processes over the stores of
\* InitDaemon; a command is split where it waits for the provider.
RaceSpec == InitDaemon /\ [][NextRace]_vars

\* ------------------------------------------------------------ properties
\* The last iteration evaluated a geofence: _eval_geo found a zone and
\* computed the containment.
Evaluated == lastStep.kind = "geo" /\ lastStep.eval.resolved /\ ~lastStep.eval.raised

\* The state s the evaluation started from: inside iff the runtime record
\* existed and carried in_zone = true.
PriorInside ==
    lastStep.prior.present /\ lastStep.prior.has_in_zone /\ lastStep.prior.in_zone

\* The last iteration issued a patch call that did not succeed.
PatchFailed ==
    /\ lastStep.kind = "local_tz"
    /\ lastStep.calls # <<>>
    /\ lastStep.calls[1].rc # "ok"

\* C1: for a recurring geofence job, each evaluation emits 'enter' exactly on
\* an outside-to-inside change of the observed location, 'exit' exactly on an
\* inside-to-outside change, and nothing while the containment is steady.
C1_OncePerCrossing ==
    (Evaluated /\ lastStep.evaluated /\ lastStep.job.recurring) =>
        LET p == lastStep.prevObs
            c == lastStep.eval.inside
            e == lastStep.eval.event
        IN  /\ (e = "enter") <=> (~p /\ c)
            /\ (e = "exit") <=> (p /\ ~c)

\* C2: one evaluation from prior state s with containment c yields 'enter'
\* iff s = outside and c = inside, 'exit' iff s = inside and c = outside, and
\* no event when s = c; a job without runtime state counts as outside.
C2_TransitionEvent ==
    Evaluated =>
        LET s == PriorInside
            c == lastStep.eval.inside
            e == lastStep.eval.event
        IN  /\ (e = "enter") <=> (~s /\ c)
            /\ (e = "exit") <=> (s /\ ~c)
            /\ (s = c) => (e = NoEvent)
            /\ ~lastStep.prior.present => ((e = "enter") <=> c)

C2_Witness ==
    /\ Evaluated
    /\ ~lastStep.prior.present
    /\ lastStep.eval.inside
    /\ lastStep.eval.event = "enter"

\* C3: the transition event is returned by the evaluator, and the tick fires
\* the job, iff the job's filter is 'both' or equals the event.
C3_Delivery ==
    Evaluated =>
        LET e == lastStep.eval.event
            on == lastStep.job.trigger.on
            ret == lastStep.eval.ret
        IN  /\ (ret # NoEvent) <=> (e # NoEvent /\ (on = "both" \/ on = e))
            /\ (ret # NoEvent) => (ret = e)
            /\ ~lastStep.raised => (lastStep.delivered <=> (ret # NoEvent))

C3_Witness ==
    /\ Evaluated
    /\ lastStep.job.trigger.on = "enter"
    /\ lastStep.eval.event = "exit"
    /\ lastStep.eval.ret = NoEvent
    /\ ~lastStep.delivered

\* C4: a one-shot geofence job is disabled in the tracking store by the cycle
\* that delivers its first event, and no later cycle delivers an event of it.
C4_OneShot ==
    /\ lastEnd.enabled = {}
    /\ (lastStep.kind = "geo" /\ lastStep.delivered /\ ~lastStep.job.recurring)
           => ~lastStep.firedBefore

\* C5: a patch issued for a job leaves lastAppliedTz = T in the tracking
\* store when the cycle ends, and the following cycle with the same timezone
\* issues no further patch for that job.
C5_PatchOnce ==
    /\ lastEnd.stale = {}
    /\ \A k \in DOMAIN calls :
           (calls[k].op = "edit" /\ Completed(calls[k]))
               => <<calls[k].id, calls[k].tz>> \notin lastEnd.patched

\* C6: for a TimezoneFollower whose lastAppliedTz equals the current resolved
\* timezone the iteration calls the scheduler not at all and leaves the
\* record as it was.
C6_NoOp ==
    (lastStep.kind = "local_tz" /\ lastStep.job.current_tz = lastStep.tz) =>
        /\ lastStep.calls = <<>>
        /\ lastStep.jobAfter = lastStep.job
        /\ ~lastStep.raised

C6_Witness ==
    /\ lastStep.kind = "local_tz"
    /\ lastStep.gps
    /\ lastStep.job.current_tz = lastStep.tz
    /\ lastStep.tz = LON

\* C7: no patch call carries the fallback default timezone; while the state
\* holds no GPS-derived timezone an iteration issues no patch and changes no
\* lastAppliedTz, whatever the record's lastAppliedTz is.
C7_NoFallbackPatch ==
    /\ \A k \in DOMAIN calls : calls[k].op = "edit" => ~calls[k].fallback
    /\ (lastStep.kind = "local_tz" /\ ~lastStep.gps) =>
           /\ lastStep.calls = <<>>
           /\ lastStep.jobAfter = lastStep.job

C7_Witness ==
    /\ lastStep.kind = "local_tz"
    /\ ~lastStep.gps
    /\ stateFile.tz = NoTz
    /\ lastStep.job.current_tz # lastStep.tz

\* C8: lastAppliedTz changes only when the patch call succeeded; after a
\* rejected patch it keeps its previous value.
C8_UpdateOnSuccess ==
    PatchFailed => lastStep.jobAfter.current_tz = lastStep.job.current_tz

\* C9: a failed patch call (rejected, or the call itself erroring) does not
\* stop the cycle.
C9_PatchFailureContinues ==
    PatchFailed => lastEnd.how # "aborted"

\* C10: an exception raised while evaluating or firing one geofence job does
\* not abort the cycle.
C10_JobIsolation ==
    (lastStep.kind = "geo" /\ lastStep.raised) => lastEnd.how # "aborted"

\* A cycle has ended (it is not running, and one was started).
CycleEnded == lastEnd.how \in {"empty", "completed", "aborted"}

\* The zone of the job can be resolved neither from the registry nor from
\* inline coordinates.
Unresolvable(job) == "none" \in DOMAIN ResolveZone(job.trigger, Locations)

\* C11: after any sequence of registrations (add of either variant, edit
\* that starts timezone tracking) no two records of the tracking store share
\* a name.
C11_UniqueNames ==
    \A i, k \in DOMAIN locronFile :
        i # k => locronFile[i].name # locronFile[k].name

\* C12: an iteration raises fireCount by one and sets lastFiredAt exactly
\* when it delivers an event, and leaves both alone otherwise; between cycles
\* the stored fireCount of a name equals the number of events delivered for it.
C12_FireCount ==
    /\ (lastStep.kind = "geo" /\ ~lastStep.raised) =>
           IF lastStep.delivered
           THEN /\ lastStep.post.fire_count = lastStep.prior.fire_count + 1
                /\ lastStep.post.last_fired = now
           ELSE /\ lastStep.post.fire_count = lastStep.prior.fire_count
                /\ lastStep.post.last_fired = lastStep.prior.last_fired
    /\ pc = "idle" =>
           \A n \in Names : stateFile.geo[n].fire_count = deliveredCnt[n]

\* C13: the iteration of a disabled geofence job, or of any geofence job
\* while no location is known, leaves the runtime record of the job as it was
\* (none is created), leaves the job record as it was and calls the
\* scheduler not at all.
C13_SkipFrame ==
    (lastStep.kind = "geo" /\ (~lastStep.job.enabled \/ lastStep.loc = NoLoc)) =>
        /\ lastStep.post = lastStep.prior
        /\ lastStep.jobAfter = lastStep.job
        /\ lastStep.calls = <<>>
        /\ ~lastStep.delivered
        /\ ~lastStep.raised

C13_Witness ==
    /\ lastStep.kind = "geo"
    /\ ~lastStep.job.enabled
    /\ lastStep.loc = 9000
    /\ lastStep.prior.present
    /\ lastStep.prior.in_zone
    /\ lastStep.post.in_zone

\* C14: the iteration of a geofence job whose zone cannot be resolved
\* delivers no event, raises no error and leaves the runtime record of the
\* job as it was: none is created, none is changed.
C14_UnresolvedFrame ==
    (lastStep.kind = "geo" /\ Unresolvable(lastStep.job)) =>
        /\ ~lastStep.delivered
        /\ ~lastStep.raised
        /\ lastStep.calls = <<>>
        /\ lastStep.post = lastStep.prior

\* C15: when a one-shot job delivers an event and the dispatch fails
\* (non-zero exit, or the command does not launch), the iteration still
\* disables the job, raises fireCount by one and sets lastFiredAt.
C15_OneShotDespiteFailure ==
    (/\ lastStep.kind = "geo"
     /\ ~lastStep.job.recurring
     /\ lastStep.eval.ret # NoEvent
     /\ lastStep.calls # <<>>
     /\ lastStep.calls[1].rc # "ok") =>
        /\ ~lastStep.jobAfter.enabled
        /\ lastStep.post.fire_count = lastStep.prior.fire_count + 1
        /\ lastStep.post.last_fired = now

C17_RefreshFirst ==
    /\ pc = "loop" =>
           /\ cyc.refreshed
           /\ cyc.fresh # NoLoc =>
                  /\ memState.loc = cyc.fresh
                  /\ timezone_at(cyc.fresh, 0) # NoTz =>
                         memState.tz = timezone_at(cyc.fresh, 0)
           /\ lastStep.kind # "none" =>
                  /\ lastStep.loc = get_current_location(memState)
                  /\ lastStep.tz = get_current_tz(memState)
    /\ lastEnd.how = "empty" => ~lastEnd.refreshed

C17_Witness ==
    /\ pc = "loop"
    /\ lastStep.kind = "local_tz"
    /\ cyc.fresh = 51
    /\ stateFile.tz = NY
    /\ lastStep.tz = LON

\* C17 (as stated): every cycle refreshes the location, whatever the
\* tracking store holds.
C17_EveryCycleRefreshes ==
    CycleEnded => lastEnd.refreshed

\* C18: once the daemon runs it keeps running, whether its cycles fail or
\* not, and it goes on to start every cycle the bound allows.
C18_LoopContinues ==
    /\ [](proc = "daemon" => [](proc = "daemon"))
    /\ (proc = "daemon") ~> (now = MaxTicks /\ pc = "idle")

C18_Witness ==
    /\ proc = "daemon"
    /\ pc = "idle"
    /\ now = MaxTicks
    /\ lastEnd.how = "aborted"

\* The provider was asked and gave no point: unreachable, malformed or empty
\* reply, or the key rejected.
FetchFailed ==
    /\ rf.phase = "done"
    /\ rf.cfg.provider = "dawarich"
    /\ KeyUsed(rf.cfg) # "raise"
    /\ ServerReply(KeyUsed(rf.cfg), rf.answer).kind # "point"

\* C19: when the fetch from the provider fails, update_location leaves the
\* stored location and timezone as they were, returns the stored location
\* (or none) and raises nothing.
C19_SoftFail ==
    FetchFailed =>
        /\ rf.result.state = rf.state
        /\ rf.result.ret = rf.state.loc
        /\ ~rf.result.raised

C19_Witness ==
    /\ FetchFailed
    /\ rf.answer.kind = "malformed"
    /\ rf.state.loc = 50
    /\ rf.state.tz = NY
    /\ rf.result.ret = 50

\* C20: with no key and no secrets file configured, with an unknown
\* provider, or with the static coordinates missing, update_location raises
\* nothing and leaves the stored location and timezone as they were.
C20_NoConfigNoRaise ==
    (/\ rf.phase = "done"
     /\ \/ /\ rf.cfg.provider = "dawarich"
           /\ rf.cfg.api_key = ""
           /\ rf.cfg.secrets = "unset"
        \/ rf.cfg.provider = "other"
        \/ /\ rf.cfg.provider = "static"
           /\ rf.cfg.static = NoLoc) =>
        /\ ~rf.result.raised
        /\ rf.result.state = rf.state
        /\ rf.result.ret = rf.state.loc

\* C21: a stored timezone is the timezone of the stored location, which is
\* the location fetched last; a location that the lookup cannot resolve is
\* not stored together with the timezone of an older location.
C21_TzFromLatest ==
    stateFile.tz # NoTz =>
        /\ stateFile.loc # NoLoc
        /\ stateFile.tz = timezone_at(stateFile.loc, 0)

\* C27: a remove command that drops a geofence job leaves no runtime record
\* of its name, a job added under a name that was not tracked finds no
\* runtime record, and a runtime record disappears only in a step that
\* removes its job.
C27_RemoveDropsState ==
    [][\A n \in Names :
          /\ (/\ adds' = adds + 1
              /\ n \in GeoNamesOf(locronFile)
              /\ n \notin NamesOf(locronFile')) => ~stateFile'.geo[n].present
          /\ (/\ adds' = adds + 1
              /\ n \notin NamesOf(locronFile)
              /\ n \in GeoNamesOf(locronFile')) => ~stateFile'.geo[n].present
          /\ (stateFile.geo[n].present /\ ~stateFile'.geo[n].present) =>
                 /\ adds' = adds + 1
                 /\ n \in GeoNamesOf(locronFile)
                 /\ n \notin NamesOf(locronFile')]_vars

\* C28: after a refresh get_current_tz returns the stored timezone when one
\* is stored (the one of the fresh point when that resolves, else the one
\* stored before), and the configured default when none was ever stored.
C28_CurrentTz ==
    (rf.phase = "done" /\ ~rf.result.raised) =>
        LET fresh == _fetch_from_provider(rf.cfg, rf.answer)
            computed == fresh # NoLoc /\ timezone_at(fresh, 0) # NoTz
        IN  /\ computed => rf.tz = timezone_at(fresh, 0)
            /\ (~computed /\ rf.state.tz # NoTz) => rf.tz = rf.state.tz
            /\ (~computed /\ rf.state.tz = NoTz) => rf.tz = DEFAULT_TZ

C28_Witness ==
    /\ rf.phase = "done"
    /\ rf.state.tz = LON
    /\ rf.answer.kind = "unreachable"
    /\ rf.cfg.provider = "dawarich"
    /\ rf.tz = LON

\* C29: a point is inside the zone "home" iff its distance to the centre is
\* at most the radius; the point at exactly the radius is inside.
C29_ClosedBoundary ==
    (Evaluated /\ lastStep.job.trigger.location = "home") =>
        (lastStep.eval.inside <=>
            Abs(lastStep.loc - Locations["home"].lat) <= DefaultRadius)

C29_Witness ==
    /\ Evaluated
    /\ lastStep.job.trigger.location = "home"
    /\ Abs(lastStep.loc - Locations["home"].lat) = DefaultRadius
    /\ lastStep.eval.inside

\* C30: a cycle that runs to its end leaves in the tracking store exactly
\* the names that were in it right before the cycle saved: a job added since
\* the cycle loaded the store stays, a job removed since stays away.
C30_NoLostUpdate ==
    [][(pc = "loop" /\ pc' = "idle" /\ lastEnd'.how = "completed") =>
          NamesOf(locronFile') = NamesOf(locronFile)]_vars

\* A step of the canary.
CanaryRan == canary'.runs = canary.runs + 1

\* The local_tz records whose job the scheduler does not list.
MissingFollowers(jobs, e) ==
    {k \in DOMAIN jobs : jobs[k].kind = "local_tz" /\ jobs[k].openclaw_id \notin Listed(e)}

\* The local_tz records whose job the scheduler lists with another timezone
\* than the record's current_tz.
DriftedFollowers(jobs, e) ==
    {k \in DOMAIN jobs : /\ jobs[k].kind = "local_tz"
                         /\ jobs[k].openclaw_id \in Listed(e)
                         /\ e[jobs[k].openclaw_id].tz # jobs[k].current_tz}

\* C22: when the scheduler returned its list and the tracking store could be
\* read, check 1 of the canary reports a violation iff the id of some local_tz
\* record is absent from the list; the record it names is a local_tz record
\* with such an id, never a geo record.
C22_MissingReported ==
    [][(CanaryRan /\ canary'.listOk /\ canary'.storeOk) =>
         /\ (canary'.check1.res = "missing") = (MissingFollowers(locronFile, ext) # {})
         /\ canary'.check1.res \in {"ok", "missing"}
         /\ canary'.check1.res = "missing" =>
              \E k \in MissingFollowers(locronFile, ext) :
                  /\ locronFile[k].name = canary'.check1.name
                  /\ locronFile[k].openclaw_id = canary'.check1.id]_vars

\* C22: the canary ran over a store with the follower a, whose job was deleted
\* from the scheduler, and the geo record b: check 1 named a.
C22_Witness ==
    /\ canary.runs > 0
    /\ canary.listOk /\ canary.storeOk
    /\ canary.check1 = [res |-> "missing", name |-> "a", id |-> 1]
    /\ 1 \notin Listed(ext)
    /\ \E k \in DOMAIN locronFile : locronFile[k].kind = "geo"

\* C23: when the scheduler returned its list and the tracking store could be
\* read, check 2 of the canary reports a violation iff some local_tz record
\* whose job is in the list has a current_tz other than the timezone of that
\* job; the record it names is such a record.
C23_DriftReported ==
    [][(CanaryRan /\ canary'.listOk /\ canary'.storeOk) =>
         /\ (canary'.check2.res = "drift") = (DriftedFollowers(locronFile, ext) # {})
         /\ canary'.check2.res \in {"ok", "drift"}
         /\ canary'.check2.res = "drift" =>
              \E k \in DriftedFollowers(locronFile, ext) :
                  /\ locronFile[k].name = canary'.check2.name
                  /\ locronFile[k].openclaw_id = canary'.check2.id]_vars

\* C23: the canary ran when the job of the first follower was gone and the
\* job of the second carried another timezone than its record: check 2 named
\* the second.
C23_Witness ==
    /\ canary.runs > 0
    /\ canary.listOk /\ canary.storeOk
    /\ canary.check1.res = "missing"
    /\ canary.check2.res = "drift"
    /\ canary.check2.id # canary.check1.id
    /\ Len(locronFile) = 2
    /\ locronFile[1].kind = "local_tz"
    /\ locronFile[1].openclaw_id = canary.check1.id
    /\ locronFile[2].kind = "local_tz"
    /\ locronFile[2].openclaw_id = canary.check2.id

\* C24: a run of the canary leaves the tracking store and the runtime store
\* unchanged, and leaves every job of the scheduler as it was: none is
\* patched, deleted or created again.
C24_ReportOnly ==
    [][CanaryRan =>
         /\ locronFile' = locronFile
         /\ stateFile' = stateFile
         /\ Len(ext') >= Len(ext)
         /\ \A i \in DOMAIN ext : ext'[i] = ext[i]]_vars

\* C24: the canary reported a missing job and a drifted job and raised its
\* alert; the job is still missing and the drift is still there.
C24_Witness ==
    /\ canary.runs > 0
    /\ canary.alerted
    /\ canary.check1.res = "missing"
    /\ canary.check2.res = "drift"
    /\ MissingFollowers(locronFile, ext) # {}
    /\ DriftedFollowers(locronFile, ext) # {}

\* C25: no cycle patches a job again after a patch of that job did not end
\* with exit 0; and when the last cycle has ended with such a patch, the run
\* of the canary that follows reports a missing job or a drift for as long as
\* the scheduler does not carry the timezone of that patch.
C25_RejectedSurfaces ==
    [][/\ \A i \in DOMAIN calls', j \in DOMAIN calls' :
            (i < j /\ calls'[i].op = "edit" /\ calls'[i].rc # "ok"
                   /\ calls'[j].op = "edit") => calls'[j].id # calls'[i].id
       /\ (/\ CanaryRan /\ canary'.listOk /\ canary'.storeOk
           /\ lastEnd.how \in {"completed", "aborted"}
           /\ \E p \in lastEnd.rejected :
                 p[1] \notin Listed(ext) \/ ext[p[1]].tz # p[2])
          => (canary'.check1.res = "missing" \/ canary'.check2.res = "drift")]_vars

\* C26: what a process loads while another saves is the content before the
\* save or the content after it.
C26_OldOrNew == sv.rpc = "done" => sv.seen \in {sv.old, sv.new}

\* C31: the save of a status or add --tz local command leaves every geofence
\* runtime record of the state file as it was, also when a tick has written
\* the record since the command loaded the file.
C31_StateNotReverted ==
    [][(cmd.pc # "none" /\ cmd'.pc = "none") =>
          \A n \in Names : stateFile'.geo[n] = stateFile.geo[n]]_vars

\* The names for which the calls cs carry a dispatch request.
Dispatched(cs) == {cs[k].name : k \in {m \in DOMAIN cs : cs[m].op = "add"}}

\* C32: when a cycle ends, however it ends, the runtime record of every job
\* for which it issued a dispatch request is in the state file as the cycle
\* left it (insideZone, fireCount, lastFiredAt), and a one-shot job among them
\* is disabled in the tracking store.
C32_DispatchPersisted ==
    [][(pc = "loop" /\ pc' = "idle") =>
          \A n \in Dispatched(calls) :
              /\ stateFile'.geo[n] = memState.geo[n]
              /\ \A k \in DOMAIN memJobs :
                     (memJobs[k].name = n /\ memJobs[k].kind = "geo"
                                          /\ ~memJobs[k].enabled) =>
                         \A j \in DOMAIN locronFile' :
                             (locronFile'[j].name = n /\ locronFile'[j].kind = "geo")
                                 => ~locronFile'[j].enabled]_vars

\* The local_tz records of jobs that carry an id of the scheduler.
Followers(jobs) ==
    {k \in DOMAIN jobs : jobs[k].kind = "local_tz" /\ jobs[k].openclaw_id # 0}

\* C33: when a cycle ends after its last job and leaves a GPS-derived
\* timezone T in the state file, every local_tz record of the tracking store
\* that carries an id of the scheduler has current_tz = T.
C33_Converged ==
    [][(pc = "loop" /\ pc' = "idle" /\ lastEnd'.how = "completed"
                    /\ stateFile'.tz # NoTz) =>
          \A k \in Followers(locronFile') :
              locronFile'[k].current_tz = stateFile'.tz]_vars

\* The record new is the record old, but for the current_tz of a local_tz
\* record or for the enabled flag of a geo record going from true to false.
SameButTzOrDisabled(old, new) ==
    \/ new = old
    \/ /\ old.kind = "local_tz" /\ new.kind = "local_tz"
       /\ new = [old EXCEPT !.current_tz = new.current_tz]
    \/ /\ old.kind = "geo" /\ new.kind = "geo"
       /\ old.enabled
       /\ new = [old EXCEPT !.enabled = FALSE]

\* C34: a step of a tick leaves in the tracking store the records it held,
\* in their order, each as it was but for the current_tz of a local_tz record
\* and the enabled flag of a geo record, which only goes from true to false.
C34_TickFrame ==
    [][(adds' = adds) =>
          /\ Len(locronFile') = Len(locronFile)
          /\ \A k \in DOMAIN locronFile :
                 k \in DOMAIN locronFile' =>
                     SameButTzOrDisabled(locronFile[k], locronFile'[k])]_vars

\* C35: every local_tz record of the tracking store carries the id of a job
\* of the scheduler; an add --tz local whose create call returned an id
\* replaces the records of its name by one record with that id, and one whose
\* create call returned none leaves the tracking store as it was, an older
\* record of the same name included.
C35_TrackedOnlyWithId ==
    [][/\ \A k \in DOMAIN locronFile' :
            locronFile'[k].kind = "local_tz" =>
                locronFile'[k].openclaw_id \in DOMAIN ext'
       /\ (cmd.pc = "add" /\ cmd'.what = "no id") =>
              /\ locronFile' = locronFile
              /\ ext' = ext
       /\ (cmd.pc = "add" /\ cmd'.what = "created") =>
              /\ Len(ext') = Len(ext) + 1
              /\ Len(locronFile') = Len(WithoutName(locronFile, cmd'.name)) + 1
              /\ locronFile'[Len(locronFile')].kind = "local_tz"
              /\ locronFile'[Len(locronFile')].name = cmd'.name
              /\ locronFile'[Len(locronFile')].openclaw_id = Len(ext')]_vars

\* C35: an add --tz local under the name of the tracked follower a got no id
\* from the scheduler; the older record of a is still tracked with its id.
C35_Witness ==
    /\ cmd.pc = "none"
    /\ cmd.what = "no id"
    /\ cmd.name = "a"
    /\ stateFile.loc = 51
    /\ \E k \in DOMAIN locronFile :
           /\ locronFile[k].kind = "local_tz"
           /\ locronFile[k].name = "a"
           /\ locronFile[k].openclaw_id = 1
           /\ locronFile[k].current_tz = NY

\* C36: between cycles the in_zone stored for a job equals the containment
\* its last evaluation computed, whether or not the filter let the event of
\* that evaluation through.
C36_InsidePersisted ==
    pc = "idle" => \A n \in Names : stateFile.geo[n].in_zone = obs[n]

\* The number of dispatch requests for the name n among the calls cs.
Requests(cs, n) == Cardinality({k \in DOMAIN cs : cs[k].op = "add" /\ cs[k].name = n})

\* The last iteration delivered an event: it issued one dispatch request when
\* the action text is not empty and none when it is; either way it raised
\* fire_count by one and disabled a one-shot job.
DeliveredOnce ==
    (lastStep.kind = "geo" /\ lastStep.delivered) =>
        /\ Requests(lastStep.calls, lastStep.name) =
               (IF lastStep.job.action.text = "" THEN 0 ELSE 1)
        /\ Len(lastStep.calls) = Requests(lastStep.calls, lastStep.name)
        /\ lastStep.post.fire_count = lastStep.prior.fire_count + 1
        /\ ~lastStep.job.recurring => ~lastStep.jobAfter.enabled

\* C37: a delivered event issues exactly one dispatch request iff the action
\* text is not empty, and raises fireCount and disables a one-shot job also
\* when it is empty; the stored fireCount of a job never falls behind its
\* dispatch requests: a cycle that ends has raised it by at least the number
\* of requests the cycle issued for the job.
C37_RequestsWithinFireCount ==
    [][/\ DeliveredOnce'
       /\ (pc = "loop" /\ pc' = "idle") =>
              \A n \in Names :
                  stateFile'.geo[n].fire_count >=
                      stateFile.geo[n].fire_count + Requests(calls, n)]_vars
====
